---- MODULE Spec2Model ----
(***************************************************************************)
(* Model of the local JSON data store of the Reentry assistant             *)
(* (src/src/storage/data-store.ts): an in-memory StorageSchema, a dirty    *)
(* flag, an autosave timer, failure listeners, and a data directory with   *)
(* one primary file, one staging file and three rotated backups.           *)
(*                                                                         *)
(* save() is synchronous from its first file operation to its return (it   *)
(* only uses the fs.*Sync calls), so no other store operation runs between *)
(* its steps; the model still splits it into one action per file operation *)
(* so that every crash point and every failing step is a state.            *)
(***************************************************************************)
EXTENDS Integers, Sequences, FiniteSets, TLC

\* ------------------------------------------------------------------------
\* Bounds of the model
\* ------------------------------------------------------------------------
MaxSaves == 5       \* save() calls explored
MaxListeners == 2   \* registrations accepted by onFailure
MaxFaults == 1      \* failing file operations and crashes explored

\* ------------------------------------------------------------------------
\* Program constants
\* ------------------------------------------------------------------------
BACKUP_COUNT == 3
CURRENT_SCHEMA_VERSION == 1

\* ------------------------------------------------------------------------
\* Input sets
\* ------------------------------------------------------------------------
SessionIds == {"s1"}
ProjectIds == {"p1"}
EntryTimes == {1000, 2000, 3000, 4000}
ListenerIds == {"l1", "l2"}
CaptureIds == {"c1"}
CaptureInputs == {"fix login bug"}
Ratings == {5}
FeedbackTimes == {2500}

\* An optional value is a sequence of length 0 (absent) or 1 (present).
Absent == <<>>
Some(v) == <<v>>

\* ------------------------------------------------------------------------
\* Files of the data directory
\* ------------------------------------------------------------------------
MainFile == "data.json"
\* Staging directly in the primary file.
TempFileIsMain == "data.json"
TempFile == "data.temp.json"
BackupFile(n) ==
  CASE n = 1 -> "data.backup.1.json"
    [] n = 2 -> "data.backup.2.json"
    [] OTHER -> "data.backup.3.json"
BackupFiles == {BackupFile(n) : n \in 1..BACKUP_COUNT}
FileNames == {MainFile, TempFile} \cup BackupFiles

\* Content of a path: no file, a truncated (partially written) file, bytes
\* that are not JSON, or a JSON document.
NoFile == [kind |-> "absent"]
Truncated == [kind |-> "truncated"]
Garbage == [kind |-> "garbage"]
JsonFile(doc) == [kind |-> "json", doc |-> doc]

\* JSON text whose root is not an object, such as 42 or null.
NonObject == [kind |-> "scalar"]

Exists(d, f) == d[f].kind # "absent"

\* ------------------------------------------------------------------------
\* Record model
\* ------------------------------------------------------------------------
EmptyMap == <<>>

createEmptySchema ==
  [sessions |-> EmptyMap,
   sessionsByProject |-> EmptyMap,
   captures |-> EmptyMap,
   version |-> CURRENT_SCHEMA_VERSION]

Session(id, projectId, entryTime) ==
  [id |-> id, projectId |-> projectId, entryTime |-> entryTime,
   exitTime |-> Absent, captureId |-> Absent,
   feedbackRating |-> Absent, feedbackTime |-> Absent]

SessionInputs ==
  {Session(id, p, t) : id \in SessionIds, p \in ProjectIds, t \in EntryTimes}

\* A Capture; every array of contextElements other than the intent is
\* left undefined.
Capture(id, sessionId, input, timestamp) ==
  [id |-> id, sessionId |-> sessionId, type |-> "quick",
   originalInput |-> input,
   contextElements |-> [originalInput |-> input, intent |-> Some(<<input>>)],
   timestamp |-> timestamp]

\* The maps of the schema are plain objects: besides its own keys, obj[k]
\* finds the members of Object.prototype, here the one named constructor.
Inherited == {"constructor"}
InheritedMember(k) == [builtin |-> k]

\* obj[k]: the own property, else the inherited member, else undefined.
Lookup(m, k) ==
  IF k \in DOMAIN m THEN Some(m[k])
  ELSE IF k \in Inherited THEN Some(InheritedMember(k))
  ELSE Absent

\* A map assignment that keeps the value of a key that is present.
PutIfAbsent(m, k, v) ==
  [x \in (DOMAIN m) \cup {k} |-> IF x \in DOMAIN m THEN m[x] ELSE v]
\* obj[k] = v.
Put(m, k, v) == [x \in (DOMAIN m) \cup {k} |-> IF x = k THEN v ELSE m[x]]

\* An includes that never finds the element.
IncludesNever(seq, x) == FALSE
\* Array.prototype.includes.
Includes(seq, x) == \E i \in 1..Len(seq) : seq[i] = x

\* ------------------------------------------------------------------------
\* Serializer
\* ------------------------------------------------------------------------
\* Date.prototype.toISOString: a Date (milliseconds since the epoch) as an
\* ISO-8601 string with millisecond precision; new Date(string) parses it.
\* toISOStringSeconds is a conversion with a precision of seconds.
toISOStringSeconds(ms) == [iso |-> (ms \div 1000) * 1000]
toISOString(ms) == [iso |-> ms]
parseDate(str) == str.iso

\* The time value of an Invalid Date is NaN, written -1 here; a relational
\* comparison with NaN on either side is false.
NaN == -1
isNaN(t) == t = NaN
DateLess(a, b) == ~isNaN(a) /\ ~isNaN(b) /\ a < b
DateAtLeast(a, b) == ~isNaN(a) /\ ~isNaN(b) /\ a >= b

\* safeISOString on an optional Date: undefined and an Invalid Date give
\* undefined.
safeISOString(d) ==
  IF d = Absent \/ isNaN(d[1]) THEN Absent ELSE Some(toISOString(d[1]))

serializeSession(s) ==
  [s EXCEPT !.entryTime = safeISOString(Some(s.entryTime))[1],
            !.exitTime = safeISOString(s.exitTime),
            !.feedbackTime = safeISOString(s.feedbackTime)]

serializeCapture(c) ==
  [c EXCEPT !.timestamp = safeISOString(Some(c.timestamp))[1]]

\* The JSON values a version field may hold: a number, or a string (here
\* the string of the digits of n); typeof tells them apart.
JsonNumber(n) == [type |-> "number", value |-> n]
JsonString(n) == [type |-> "string", value |-> n]
typeof(v) == v.type

\* The JSON document written for the in-memory schema d.
serialize(d) ==
  [version |-> Some(JsonNumber(d.version)),
   sessions |-> [id \in DOMAIN d.sessions |-> serializeSession(d.sessions[id])],
   sessionsByProject |-> d.sessionsByProject,
   captures |-> [id \in DOMAIN d.captures |-> serializeCapture(d.captures[id])]]

reviveSession(s) ==
  [s EXCEPT !.entryTime = parseDate(s.entryTime),
            !.exitTime = IF s.exitTime # Absent
                         THEN Some(parseDate(s.exitTime[1])) ELSE Absent,
            !.feedbackTime = IF s.feedbackTime # Absent
                             THEN Some(parseDate(s.feedbackTime[1])) ELSE Absent]

reviveCapture(c) == [c EXCEPT !.timestamp = parseDate(c.timestamp)]

\* deserialize(raw): [ok |-> FALSE] stands for a thrown error (JSON.parse
\* failing on bytes that are not JSON, or 'Invalid storage schema' for a
\* root that is no object or a version that is no number).
Thrown == [ok |-> FALSE]
deserialize(raw) ==
  IF raw.kind # "json" THEN Thrown
  ELSE IF raw.doc.version = Absent THEN Thrown
  ELSE IF typeof(raw.doc.version[1]) # "number" THEN Thrown
  ELSE [ok |-> TRUE,
        value |->
          [sessions |-> [id \in DOMAIN raw.doc.sessions |->
                           reviveSession(raw.doc.sessions[id])],
           sessionsByProject |-> raw.doc.sessionsByProject,
           captures |-> [id \in DOMAIN raw.doc.captures |->
                           reviveCapture(raw.doc.captures[id])],
           version |-> raw.doc.version[1].value]]

\* ------------------------------------------------------------------------
\* Load protocol
\* ------------------------------------------------------------------------
Null == [kind |-> "null"]
Loaded(s) == [kind |-> "schema", value |-> s]
Raised == [kind |-> "throw"]

\* tryLoadFile without its catch clause: a failing deserialize propagates.
tryLoadFileNoCatch(d, f) ==
  IF ~Exists(d, f) THEN Null
  ELSE IF deserialize(d[f]).ok THEN Loaded(deserialize(d[f]).value)
  ELSE Raised

\* tryLoadFile: null for a missing file and for any error while reading
\* or deserializing it.
tryLoadFile(d, f) ==
  IF ~Exists(d, f) THEN Null
  ELSE IF deserialize(d[f]).ok THEN Loaded(deserialize(d[f]).value)
  ELSE Null

\* The backups tried from the oldest to the newest.
RECURSIVE loadBackupsOldestFirst(_, _)
loadBackupsOldestFirst(d, i) ==
  IF i > BACKUP_COUNT THEN Loaded(createEmptySchema)
  ELSE IF tryLoadFile(d, BackupFile(BACKUP_COUNT + 1 - i)).kind = "null"
       THEN loadBackupsOldestFirst(d, i + 1)
       ELSE tryLoadFile(d, BackupFile(BACKUP_COUNT + 1 - i))

\* The loop of load() over the backups, from backup.i on.
RECURSIVE loadBackups(_, _)
loadBackups(d, i) ==
  IF i > BACKUP_COUNT THEN Loaded(createEmptySchema)
  ELSE IF tryLoadFile(d, BackupFile(i)).kind = "null"
       THEN loadBackups(d, i + 1)
       ELSE tryLoadFile(d, BackupFile(i))

\* What load() does in disk state d: the schema it installs, or Raised.
loadResult(d) ==
  IF tryLoadFile(d, MainFile).kind = "null"
  THEN loadBackups(d, 1)
  ELSE tryLoadFile(d, MainFile)

\* ------------------------------------------------------------------------
\* File operations
\* ------------------------------------------------------------------------
writeFile(d, f, content) == [d EXCEPT ![f] = content]

\* A "copy" that moves: the source is gone afterwards.
copyFileMoving(d, src, dst) == [d EXCEPT ![dst] = d[src], ![src] = NoFile]
copyFile(d, src, dst) == [d EXCEPT ![dst] = d[src]]
\* A "rename" that leaves the source in place.
renameFileKeeping(d, src, dst) == [d EXCEPT ![dst] = d[src]]
renameFile(d, src, dst) == [d EXCEPT ![dst] = d[src], ![src] = NoFile]

\* A write that fails leaves its target as it was (the open failed) or
\* truncated (the file was opened and the data did not all arrive).
failedWrite(d, f) == {d, [d EXCEPT ![f] = Truncated]}

\* A copy that fails leaves its target as it was, truncated, or removed
\* (the copy routine may unlink a target it could not complete).
failedCopy(d, dst) ==
  {d, [d EXCEPT ![dst] = Truncated], [d EXCEPT ![dst] = NoFile]}

\* ------------------------------------------------------------------------
\* Store operations on the in-memory schema
\* ------------------------------------------------------------------------
indexWith(idx, p) == IF p \in DOMAIN idx THEN idx ELSE Put(idx, p, <<>>)

saveSessionData(d, s) ==
  [d EXCEPT
     !.sessions = Put(@, s.id, s),
     !.sessionsByProject =
        IF Includes(indexWith(@, s.projectId)[s.projectId], s.id)
        THEN indexWith(@, s.projectId)
        ELSE Put(indexWith(@, s.projectId), s.projectId,
                 Append(indexWith(@, s.projectId)[s.projectId], s.id))]

\* Whether the index entry of the project of s lists s already.
indexed(d, s) ==
  /\ s.projectId \in DOMAIN d.sessionsByProject
  /\ Includes(d.sessionsByProject[s.projectId], s.id)

\* saveSession throws a TypeError at projectSessions.includes when the
\* project id finds an inherited member instead of an index array: the
\* session is stored by then, the index and the dirty flag are not
\* touched.
saveSessionThrows(d, s) ==
  s.projectId \notin DOMAIN d.sessionsByProject /\ s.projectId \in Inherited

storeSession(d, s) == [d EXCEPT !.sessions = Put(@, s.id, s)]

getSession(d, sessionId) == Lookup(d.sessions, sessionId)

\* getSessionsByProject: the sessions of the ids of the index entry, those
\* that are undefined filtered out; a project id that finds an inherited
\* member has no map method and the call throws.
getSessionsByProjectThrows(d, projectId) ==
  projectId \notin DOMAIN d.sessionsByProject /\ projectId \in Inherited

RECURSIVE defined(_, _)
defined(d, ids) ==
  IF ids = <<>> THEN <<>>
  ELSE Lookup(d.sessions, Head(ids)) \o defined(d, Tail(ids))

getSessionsByProject(d, projectId) ==
  IF projectId \in DOMAIN d.sessionsByProject
  THEN defined(d, d.sessionsByProject[projectId])
  ELSE <<>>

saveCaptureData(d, c) == [d EXCEPT !.captures = Put(@, c.id, c)]

getCapture(d, captureId) == Lookup(d.captures, captureId)

\* A saveFeedback that records the time and drops the rating.
saveFeedbackTimeOnly(d, sessionId, rating, timestamp) ==
  IF sessionId \in DOMAIN d.sessions
  THEN [d EXCEPT !.sessions[sessionId].feedbackTime = Some(timestamp)]
  ELSE d
\* saveFeedback: the looked-up session object gets the rating and the
\* time; an inherited member is an object too and takes them, outside the
\* schema.
saveFeedbackData(d, sessionId, rating, timestamp) ==
  IF sessionId \in DOMAIN d.sessions
  THEN [d EXCEPT !.sessions[sessionId].feedbackRating = Some(rating),
                 !.sessions[sessionId].feedbackTime = Some(timestamp)]
  ELSE d

\* The early return of saveFeedback: if (!session) return.
saveFeedbackReturnsEarly(d, sessionId) == Lookup(d.sessions, sessionId) = Absent

\* ------------------------------------------------------------------------
\* State
\* ------------------------------------------------------------------------
VARIABLES
  data,              \* DataStore.data: the in-memory StorageSchema
  dirty,             \* DataStore.dirty
  autoSaveTimer,     \* DataStore.autoSaveTimer: 0 for null, else a handle
  activeTimers,      \* interval timers alive in the event loop
  failureListeners,  \* DataStore.failureListeners
  dirExists,         \* whether the data directory exists
  disk,              \* content of each file of the data directory
  pc,                \* position of the running save(), "idle" outside it
  rot,               \* loop variable i of rotateBackups
  g,                 \* history of the last operation (not program state)
  hist,              \* snapshots committed by the last successful saves
  clean,             \* no save has failed or been cut short so far
  faults,            \* failed file operations and crashes so far
  saves              \* number of save() calls so far

\* The VoiceInputProcessor of the application and the event loop it runs in.
VARIABLES
  currentSession,    \* VoiceInputProcessor.currentSession: Absent for null
  silenceStart,      \* VoiceInputProcessor.silenceStart: Absent for null
  silenceTimer,      \* VoiceInputProcessor.silenceTimer: 0 for null
  resolveStop,       \* VoiceInputProcessor.resolveStop is set
  clock,             \* Date.now(), in milliseconds
  timeouts,          \* setTimeout timers pending in the event loop
  handles,           \* number of setTimeout handles handed out so far
  recorderOn,        \* the AudioRecorder delivers audio levels
  stopsPending,      \* onSilenceDetected calls awaiting recorder.stop()
  rt,                \* position of the recordAndTranscribe() call
  quiet,             \* start of the current run of silent levels
  voiceOp            \* the last step of the processor (not program state)

voiceVars == <<currentSession, silenceStart, silenceTimer, resolveStop, clock,
               timeouts, handles, recorderOn, stopsPending, rt, quiet, voiceOp>>

\* new VoiceInputProcessor(recorder, transcriptionService)
NewVoiceInputProcessor ==
  /\ currentSession = Absent
  /\ silenceStart = Absent
  /\ silenceTimer = 0
  /\ resolveStop = FALSE
  /\ clock = 0
  /\ timeouts = {}
  /\ handles = 0
  /\ recorderOn = FALSE
  /\ stopsPending = 0
  /\ rt = "none"
  /\ quiet = Absent
  /\ voiceOp = "new"

memVars == <<data, dirty, autoSaveTimer, activeTimers, failureListeners>>
diskVars == <<dirExists, disk>>
storeVars == <<data, dirty, autoSaveTimer, activeTimers, failureListeners,
               dirExists, disk, pc, rot, g, hist, clean, faults, saves>>
vars == <<storeVars, voiceVars>>

EmptyDisk == [f \in FileNames |-> NoFile]

NoHistory ==
  [op |-> "new", outcome |-> "ok", caller |-> "none", result |-> <<>>,
   pre |-> EmptyDisk, preDirty |-> FALSE, target |-> NoFile,
   failedAt |-> "none", events |-> <<>>, prior |-> NoFile,
   seen |-> {}, distinct |-> TRUE, cut |-> "none",
   before |-> createEmptySchema, crashed |-> FALSE]

FreshStore ==
  /\ data = createEmptySchema
  /\ dirty = FALSE
  /\ autoSaveTimer = 0
  /\ activeTimers = {}
  /\ failureListeners = <<>>
  /\ pc = "idle"
  /\ rot = 0

\* A new store on a data directory that does not exist yet.
Init ==
  /\ FreshStore
  /\ NewVoiceInputProcessor
  /\ dirExists = FALSE
  /\ disk = EmptyDisk
  /\ g = NoHistory
  /\ hist = <<>>
  /\ clean = TRUE
  /\ faults = 0
  /\ saves = 0

\* The history after a completed operation other than save(): what is kept
\* about the last save() is dropped, the operation is recorded.
Did(name) ==
  [NoHistory EXCEPT !.op = name, !.prior = g.prior, !.seen = g.seen,
                    !.distinct = g.distinct, !.crashed = g.crashed]

\* ------------------------------------------------------------------------
\* Record-level operations
\* ------------------------------------------------------------------------
SaveSession(s) ==
  /\ pc = "idle"
  /\ IF saveSessionThrows(data, s)
     THEN /\ data' = storeSession(data, s)
          /\ dirty' = dirty
          /\ g' = [Did("saveSession") EXCEPT
                    !.outcome = "threw",
                    !.result = <<s.id, indexed(data, s), s>>]
     ELSE /\ data' = saveSessionData(data, s)
          /\ dirty' = TRUE
          /\ g' = [Did("saveSession") EXCEPT
                    !.result = <<s.id, indexed(data, s), s>>]
  /\ UNCHANGED <<voiceVars, autoSaveTimer, activeTimers, failureListeners, dirExists,
                 disk, pc, rot, hist, clean, faults, saves>>

GetSession(sessionId) ==
  /\ pc = "idle"
  /\ g' = [Did("getSession") EXCEPT !.result = getSession(data, sessionId)]
  /\ UNCHANGED <<voiceVars, memVars, diskVars, pc, rot, hist, clean, faults, saves>>

GetSessionsByProject(projectId) ==
  /\ pc = "idle"
  /\ g' = IF getSessionsByProjectThrows(data, projectId)
          THEN [Did("getSessionsByProject") EXCEPT !.outcome = "threw"]
          ELSE [Did("getSessionsByProject") EXCEPT
                  !.result = getSessionsByProject(data, projectId)]
  /\ UNCHANGED <<voiceVars, memVars, diskVars, pc, rot, hist, clean, faults, saves>>

\* A saveCapture that writes the schema through to the primary file.
SaveCaptureFlushing(c) ==
  /\ pc = "idle"
  /\ data' = saveCaptureData(data, c)
  /\ dirty' = FALSE
  /\ disk' = writeFile(disk, MainFile, JsonFile(serialize(data')))
  /\ g' = [Did("saveCapture") EXCEPT !.result = <<c.id, c>>]
  /\ UNCHANGED <<voiceVars, autoSaveTimer, activeTimers, failureListeners, dirExists,
                 pc, rot, hist, clean, faults, saves>>

SaveCapture(c) ==
  /\ pc = "idle"
  /\ data' = saveCaptureData(data, c)
  /\ dirty' = TRUE
  /\ g' = [Did("saveCapture") EXCEPT !.result = <<c.id, c>>]
  /\ UNCHANGED <<voiceVars, autoSaveTimer, activeTimers, failureListeners, dirExists,
                 disk, pc, rot, hist, clean, faults, saves>>

GetCapture(captureId) ==
  /\ pc = "idle"
  /\ g' = [Did("getCapture") EXCEPT !.result = getCapture(data, captureId)]
  /\ UNCHANGED <<voiceVars, memVars, diskVars, pc, rot, hist, clean, faults, saves>>

SaveFeedback(sessionId, rating, timestamp) ==
  /\ pc = "idle"
  /\ data' = saveFeedbackData(data, sessionId, rating, timestamp)
  /\ dirty' = IF saveFeedbackReturnsEarly(data, sessionId) THEN dirty ELSE TRUE
  /\ g' = [Did("saveFeedback") EXCEPT !.result = <<sessionId>>]
  /\ UNCHANGED <<voiceVars, autoSaveTimer, activeTimers, failureListeners, dirExists,
                 disk, pc, rot, hist, clean, faults, saves>>

\* ------------------------------------------------------------------------
\* Lifecycle
\* ------------------------------------------------------------------------
\* A load() that repairs the directory: it removes a leftover staging file.
diskAfterLoadRepairing(d) == [d EXCEPT ![TempFile] = NoFile]
\* The directory after load(): load() only calls existsSync and
\* readFileSync.
diskAfterLoad(d) == d

\* A load() that keeps the captures of the in-memory schema that the
\* loaded file does not have.
mergedData(old, loaded) ==
  [loaded EXCEPT !.captures =
     [id \in DOMAIN old.captures \cup DOMAIN loaded.captures |->
        IF id \in DOMAIN loaded.captures
        THEN loaded.captures[id] ELSE old.captures[id]]]
\* this.data = loaded: the in-memory schema after load() found `loaded`.
replacedData(old, loaded) == loaded

\* A load() that also marks the store clean.
LoadClearingDirty ==
  /\ pc = "idle"
  /\ data' = IF loadResult(disk).kind = "throw"
             THEN data ELSE replacedData(data, loadResult(disk).value)
  /\ g' = [(IF g.op = "crash" THEN g ELSE Did("load")) EXCEPT
             !.op = "load",
             !.outcome = IF loadResult(disk).kind = "throw"
                         THEN "threw" ELSE "ok",
             !.before = data]
  /\ disk' = diskAfterLoad(disk)
  /\ dirty' = FALSE
  /\ UNCHANGED <<voiceVars, autoSaveTimer, activeTimers, failureListeners,
                 dirExists, pc, rot, hist, clean, faults, saves>>

\* load(): the primary file, else the backups, else the empty schema.
Load ==
  /\ pc = "idle"
  /\ data' = IF loadResult(disk).kind = "throw"
             THEN data ELSE replacedData(data, loadResult(disk).value)
  /\ g' = [(IF g.op = "crash" THEN g ELSE Did("load")) EXCEPT
             !.op = "load",
             !.outcome = IF loadResult(disk).kind = "throw"
                         THEN "threw" ELSE "ok",
             !.before = data]
  /\ disk' = diskAfterLoad(disk)
  /\ UNCHANGED <<voiceVars, dirty, autoSaveTimer, activeTimers, failureListeners,
                 dirExists, pc, rot, hist, clean, faults, saves>>

NewTimer == CHOOSE t \in 1..(Cardinality(activeTimers) + 1) : t \notin activeTimers

\* startAutoSave without its early return: every call creates an interval.
StartAutoSaveAgain ==
  /\ pc = "idle"
  /\ autoSaveTimer' = NewTimer
  /\ activeTimers' = activeTimers \cup {NewTimer}
  /\ g' = [Did("startAutoSave") EXCEPT !.result = <<autoSaveTimer # 0>>]
  /\ UNCHANGED <<voiceVars, data, dirty, failureListeners, dirExists, disk, pc, rot,
                 hist, clean, faults, saves>>
\* startAutoSave(); the history records whether a timer was running.
StartAutoSave ==
  /\ pc = "idle"
  /\ IF autoSaveTimer # 0
     THEN UNCHANGED <<autoSaveTimer, activeTimers>>
     ELSE /\ autoSaveTimer' = NewTimer
          /\ activeTimers' = activeTimers \cup {NewTimer}
  /\ g' = [Did("startAutoSave") EXCEPT !.result = <<autoSaveTimer # 0>>]
  /\ UNCHANGED <<voiceVars, data, dirty, failureListeners, dirExists, disk, pc, rot,
                 hist, clean, faults, saves>>

\* stopAutoSave that drops the handle without clearInterval.
StopAutoSaveForgetting ==
  /\ pc = "idle"
  /\ autoSaveTimer' = 0
  /\ g' = [Did("stopAutoSave") EXCEPT !.result = <<autoSaveTimer # 0>>]
  /\ UNCHANGED <<voiceVars, data, dirty, activeTimers, failureListeners, dirExists,
                 disk, pc, rot, hist, clean, faults, saves>>
\* stopAutoSave(); the history records whether a timer was running.
StopAutoSave ==
  /\ pc = "idle"
  /\ IF autoSaveTimer # 0
     THEN /\ activeTimers' = activeTimers \ {autoSaveTimer}
          /\ autoSaveTimer' = 0
     ELSE UNCHANGED <<autoSaveTimer, activeTimers>>
  /\ g' = [Did("stopAutoSave") EXCEPT !.result = <<autoSaveTimer # 0>>]
  /\ UNCHANGED <<voiceVars, data, dirty, failureListeners, dirExists, disk, pc, rot,
                 hist, clean, faults, saves>>

OnFailure(l) ==
  /\ pc = "idle"
  /\ Len(failureListeners) < MaxListeners
  /\ failureListeners' = Append(failureListeners, l)
  /\ g' = Did("onFailure")
  /\ UNCHANGED <<voiceVars, data, dirty, autoSaveTimer, activeTimers, dirExists, disk,
                 pc, rot, hist, clean, faults, saves>>

Reset ==
  /\ pc = "idle"
  /\ data' = createEmptySchema
  /\ dirty' = FALSE
  /\ g' = Did("reset")
  /\ UNCHANGED <<voiceVars, autoSaveTimer, activeTimers, failureListeners, dirExists,
                 disk, pc, rot, hist, clean, faults, saves>>

\* ------------------------------------------------------------------------
\* Save protocol
\* ------------------------------------------------------------------------
Callers == {"save", "immediateSave"}

\* The history when caller c enters save() with schema d in memory.
StartedOn(c, d, wasDirty) ==
  [g EXCEPT !.op = c, !.outcome = "running", !.caller = c,
            !.result = <<>>, !.pre = disk, !.preDirty = wasDirty,
            !.target = JsonFile(serialize(d)),
            !.failedAt = "none", !.events = <<>>, !.cut = "none",
            !.before = createEmptySchema,
            !.distinct = @ /\ JsonFile(serialize(d)) \notin g.seen,
            !.seen = @ \cup {JsonFile(serialize(d))}]

Started(c) == StartedOn(c, data, dirty)

\* The model follows at most MaxSaves calls of save(), in which at most
\* MaxFaults file operations fail or are cut short by a crash.
CanSave == saves < MaxSaves
CanFail == faults < MaxFaults

\* A save() that could be entered while another one is running.
BeginSaveReentrant(c) ==
  /\ CanSave
  /\ saves' = saves + 1
  /\ pc' = "mkdir"
  /\ g' = Started(c)
  /\ UNCHANGED <<voiceVars, memVars, diskVars, rot, hist, clean, faults>>
\* save() and immediateSave(), which only awaits save().  The body of
\* save() has no await: once entered it runs to its return or throw before
\* any other callback or call of the event loop.
BeginSave(c) ==
  /\ pc = "idle"
  /\ CanSave
  /\ saves' = saves + 1
  /\ pc' = "mkdir"
  /\ g' = Started(c)
  /\ UNCHANGED <<voiceVars, memVars, diskVars, rot, hist, clean, faults>>

\* An interval callback that calls save() whatever the dirty flag says.
AutoSaveTickAlways ==
  /\ pc = "idle"
  /\ activeTimers # {}
  /\ CanSave
  /\ pc' = "mkdir"
  /\ saves' = saves + 1
  /\ g' = Started("autosave")
  /\ UNCHANGED <<voiceVars, memVars, diskVars, rot, hist, clean, faults>>
\* The interval callback of startAutoSave: save() only if dirty.
AutoSaveTick ==
  /\ pc = "idle"
  /\ activeTimers # {}
  /\ dirty => CanSave
  /\ IF dirty
     THEN /\ pc' = "mkdir"
          /\ saves' = saves + 1
          /\ g' = Started("autosave")
     ELSE /\ pc' = pc
          /\ saves' = saves
          /\ g' = Did("autoSaveTick")
  /\ UNCHANGED <<voiceVars, memVars, diskVars, rot, hist, clean, faults>>

Failed(step) == [g EXCEPT !.failedAt = step]

\* if (!existsSync(dataDir)) mkdirSync(dataDir, {recursive: true})
SaveMkdir ==
  /\ pc = "mkdir"
  /\ dirExists' = TRUE
  /\ pc' = "write"
  /\ UNCHANGED <<voiceVars, memVars, disk, rot, g, hist, clean, faults, saves>>

SaveMkdirFails ==
  /\ pc = "mkdir"
  /\ ~dirExists
  /\ CanFail
  /\ faults' = faults + 1
  /\ pc' = "notify"
  /\ g' = Failed("mkdir")
  /\ UNCHANGED <<voiceVars, memVars, diskVars, rot, hist, clean, saves>>

\* A save() that rotates the backups only when the store was dirty.
SaveWriteTempRotatingIfDirty ==
  /\ pc = "write"
  /\ disk' = writeFile(disk, TempFile, JsonFile(serialize(data)))
  /\ pc' = IF Exists(disk, MainFile) /\ g.preDirty THEN "rotate" ELSE "rename"
  /\ rot' = BACKUP_COUNT
  /\ UNCHANGED <<voiceVars, memVars, dirExists, g, hist, clean, faults, saves>>

\* writeFileSync(tempFile, json), then the existsSync(mainFile) test.
SaveWriteTemp ==
  /\ pc = "write"
  /\ disk' = writeFile(disk, TempFile, JsonFile(serialize(data)))
  /\ pc' = IF Exists(disk, MainFile) THEN "rotate" ELSE "rename"
  /\ rot' = BACKUP_COUNT
  /\ UNCHANGED <<voiceVars, memVars, dirExists, g, hist, clean, faults, saves>>

\* A failing staging write after which the store drops its schema.
SaveWriteTempFailsDropping ==
  /\ pc = "write"
  /\ CanFail
  /\ faults' = faults + 1
  /\ disk' \in failedWrite(disk, TempFile)
  /\ pc' = "notify"
  /\ g' = Failed("write")
  /\ data' = createEmptySchema
  /\ UNCHANGED <<voiceVars, dirty, autoSaveTimer, activeTimers, failureListeners,
                 dirExists, rot, hist, clean, saves>>
\* writeFileSync of the staging file throws.
SaveWriteTempFails ==
  /\ pc = "write"
  /\ CanFail
  /\ faults' = faults + 1
  /\ disk' \in failedWrite(disk, TempFile)
  /\ pc' = "notify"
  /\ g' = Failed("write")
  /\ UNCHANGED <<voiceVars, memVars, dirExists, rot, hist, clean, saves>>

\* rotateBackups with every slot filled from backup.1.
olderFromFirst(i) == BackupFile(1)
\* The source of iteration i of rotateBackups: backup.(i-1).
older(i) == BackupFile(i - 1)

\* One iteration of the loop of rotateBackups: backup.(i-1) -> backup.i
\* when backup.(i-1) exists.
SaveRotateStep ==
  /\ pc = "rotate"
  /\ rot > 1
  /\ disk' = IF Exists(disk, older(rot))
             THEN copyFile(disk, older(rot), BackupFile(rot))
             ELSE disk
  /\ rot' = rot - 1
  /\ pc' = IF rot - 1 > 1 THEN "rotate" ELSE "copyMain"
  /\ UNCHANGED <<voiceVars, memVars, dirExists, g, hist, clean, faults, saves>>

SaveRotateStepFails ==
  /\ pc = "rotate"
  /\ rot > 1
  /\ Exists(disk, older(rot))
  /\ CanFail
  /\ faults' = faults + 1
  /\ disk' \in failedCopy(disk, BackupFile(rot))
  /\ pc' = "notify"
  /\ g' = Failed("rotate")
  /\ UNCHANGED <<voiceVars, memVars, dirExists, rot, hist, clean, saves>>

\* The last copy of rotateBackups: primary -> backup.1.
SaveCopyMain ==
  /\ pc = "copyMain"
  /\ disk' = copyFile(disk, MainFile, BackupFile(1))
  /\ pc' = "rename"
  /\ UNCHANGED <<voiceVars, memVars, dirExists, rot, g, hist, clean, faults, saves>>

\* A failing copy of the primary after which the store counts as clean.
SaveCopyMainFailsClearing ==
  /\ pc = "copyMain"
  /\ CanFail
  /\ faults' = faults + 1
  /\ disk' \in failedCopy(disk, BackupFile(1))
  /\ pc' = "notify"
  /\ g' = Failed("copyMain")
  /\ dirty' = FALSE
  /\ UNCHANGED <<voiceVars, data, autoSaveTimer, activeTimers,
                 failureListeners, dirExists, rot, hist, clean, saves>>

\* copyFileSync(mainFile, backup.1) throws.
SaveCopyMainFails ==
  /\ pc = "copyMain"
  /\ CanFail
  /\ faults' = faults + 1
  /\ disk' \in failedCopy(disk, BackupFile(1))
  /\ pc' = "notify"
  /\ g' = Failed("copyMain")
  /\ UNCHANGED <<voiceVars, memVars, dirExists, rot, hist, clean, saves>>

Window(h, x) ==
  IF Len(h) < BACKUP_COUNT + 1 THEN Append(h, x) ELSE Append(Tail(h), x)

\* renameSync(tempFile, mainFile), then dirty = false.
SaveRename ==
  /\ pc = "rename"
  /\ disk' = renameFile(disk, TempFile, MainFile)
  /\ dirty' = FALSE
  /\ pc' = "idle"
  /\ g' = [g EXCEPT !.outcome = "ok", !.prior = disk[MainFile]]
  /\ hist' = IF clean THEN Window(hist, disk[TempFile]) ELSE <<>>
  /\ UNCHANGED <<voiceVars, data, autoSaveTimer, activeTimers, failureListeners,
                 dirExists, rot, clean, faults, saves>>

\* A failing rename after which the dirty flag is cleared all the same.
SaveRenameFailsClearing ==
  /\ pc = "rename"
  /\ CanFail
  /\ faults' = faults + 1
  /\ pc' = "notify"
  /\ dirty' = FALSE
  /\ g' = Failed("rename")
  /\ UNCHANGED <<voiceVars, data, autoSaveTimer, activeTimers, failureListeners,
                 diskVars, rot, hist, clean, saves>>

SaveRenameFails ==
  /\ pc = "rename"
  /\ CanFail
  /\ faults' = faults + 1
  /\ pc' = "notify"
  /\ g' = Failed("rename")
  /\ UNCHANGED <<voiceVars, memVars, diskVars, rot, hist, clean, saves>>

\* notifyFailure returning after its first listener.
notifyFirstOnly(listeners, err) ==
  [i \in 1..(IF Len(listeners) > 0 THEN 1 ELSE 0) |->
     [call |-> listeners[i], error |-> err]]
\* notifyFailure(err): the listeners in registration order.
notifyFailure(listeners, err) ==
  [i \in 1..Len(listeners) |-> [call |-> listeners[i], error |-> err]]

\* A catch clause that also cancels the autosave timer.
SaveNotifyCancelling ==
  /\ pc = "notify"
  /\ pc' = "idle"
  /\ g' = [g EXCEPT
             !.outcome = "threw",
             !.events = notifyFailure(failureListeners, g.failedAt)
                        \o <<[call |-> "throw", error |-> g.failedAt]>>]
  /\ clean' = FALSE
  /\ hist' = <<>>
  /\ autoSaveTimer' = 0
  /\ activeTimers' = {}
  /\ UNCHANGED <<voiceVars, data, dirty, failureListeners, diskVars, rot, faults, saves>>
\* The catch clause of save(): notify the listeners, then rethrow.
SaveNotify ==
  /\ pc = "notify"
  /\ pc' = "idle"
  /\ g' = [g EXCEPT
             !.outcome = "threw",
             !.events = notifyFailure(failureListeners, g.failedAt)
                        \o <<[call |-> "throw", error |-> g.failedAt]>>]
  /\ clean' = FALSE
  /\ hist' = <<>>
  /\ UNCHANGED <<voiceVars, memVars, diskVars, rot, faults, saves>>

\* ------------------------------------------------------------------------
\* Environment
\* ------------------------------------------------------------------------
\* The process dies (at any point, also inside save()) and a new store is
\* constructed on the same directory.
Crash ==
  /\ CanFail
  /\ faults' = faults + 1
  /\ data' = createEmptySchema
  /\ dirty' = FALSE
  /\ autoSaveTimer' = 0
  /\ activeTimers' = {}
  /\ failureListeners' = <<>>
  /\ pc' = "idle"
  /\ rot' = 0
  /\ g' = [g EXCEPT !.op = "crash", !.outcome = "ok", !.cut = pc,
                    !.result = <<>>, !.before = createEmptySchema, !.crashed = TRUE]
  /\ clean' = (clean /\ pc = "idle")
  /\ hist' = IF clean /\ pc = "idle" THEN hist ELSE <<>>
  /\ UNCHANGED <<voiceVars, diskVars, saves>>

\* The steps of save() when every file operation succeeds.
SaveSteps ==
  \/ SaveMkdir
  \/ SaveWriteTemp
  \/ SaveRotateStep
  \/ SaveCopyMain
  \/ SaveRename

\* The steps of save() in which a file operation throws, and the catch.
SaveFailures ==
  \/ SaveMkdirFails
  \/ SaveWriteTempFails
  \/ SaveRotateStepFails
  \/ SaveCopyMainFails
  \/ SaveRenameFails
  \/ SaveNotify

Next ==
  \/ \E s \in SessionInputs : SaveSession(s)
  \/ Load
  \/ StartAutoSave
  \/ StopAutoSave
  \/ \E l \in ListenerIds : OnFailure(l)
  \/ Reset
  \/ \E c \in Callers : BeginSave(c)
  \/ AutoSaveTick
  \/ SaveSteps
  \/ SaveFailures
  \/ Crash

Spec == Init /\ [][Next]_vars

\* The persistence engine under failing file operations and crashes:
\* mutations, save() and reloads on a directory that starts empty.
FaultInputs == {Session("s1", "p1", 1000), Session("s1", "p1", 2000)}

NextSave ==
  \/ \E s \in FaultInputs : SaveSession(s)
  \/ Load
  \/ BeginSave("save")
  \/ SaveSteps
  \/ SaveFailures
  \/ Crash

SpecSave == Init /\ [][NextSave]_vars

\* The persistence engine when no file operation fails.
NextRotate ==
  \/ \E s \in SessionInputs : SaveSession(s)
  \/ Load
  \/ BeginSave("save")
  \/ SaveSteps

SpecRotate == Init /\ [][NextRotate]_vars

\* ------------------------------------------------------------------------
\* Properties of the save protocol (SpecSave)
\* ------------------------------------------------------------------------
SaveOps == {"save", "immediateSave", "autosave"}
SaveFailed == g.op \in SaveOps /\ g.outcome = "threw"
SaveSucceeded == g.op \in SaveOps /\ g.outcome = "ok"

\* C1: when save() has failed, at whatever step up to and including the
\* rename, the primary file has the content it had before the call (and is
\* absent if it was absent).
C1_PrimaryUnchangedOnFailure ==
  SaveFailed => disk[MainFile] = g.pre[MainFile]

\* A save that failed at the rename, after the rotation, over an existing
\* primary that differs from the staged snapshot.
C1_Witness ==
  /\ SaveFailed
  /\ g.failedAt = "rename"
  /\ Exists(disk, MainFile)
  /\ disk[TempFile] = g.target
  /\ disk[MainFile] # g.target

\* C2: at every point inside save() the primary file is absent, or is the
\* complete previous snapshot, or is the complete new snapshot, never a
\* partial file; and load() after a crash at any such point installs the
\* schema load() would have installed before the save, or the saved schema.
C2_PrimaryAtomic ==
  /\ disk[MainFile].kind # "truncated"
  /\ pc # "idle" =>
       \/ disk[MainFile] = NoFile
       \/ disk[MainFile] = g.pre[MainFile]
       \/ disk[MainFile] = g.target
  /\ (g.op = "load" /\ g.cut \notin {"none", "idle"}) =>
       /\ g.outcome = "ok"
       /\ \/ data = loadResult(g.pre).value
          \/ data = deserialize(g.target).value

\* A reload after a crash between the rotation and the rename of a save
\* over an existing primary: the previous snapshot is installed.
C2_Witness ==
  /\ g.op = "load"
  /\ g.cut = "rename"
  /\ Exists(g.pre, MainFile)
  /\ data = deserialize(g.pre[MainFile]).value
  /\ data # deserialize(g.target).value

\* C3: when save() has failed before the rename, the three backup files
\* have the content they had before the call.
C3_BackupsUntouchedOnFailure ==
  (SaveFailed /\ g.failedAt \in {"mkdir", "write", "rotate", "copyMain"})
    => \A f \in BackupFiles : disk[f] = g.pre[f]

Distinct(h) == \A i, j \in 1..Len(h) : i # j => h[i] # h[j]

\* C5: from an empty directory and without a failed save, after n saves
\* the primary holds the n-th snapshot, backup.k holds the (n-k)-th for
\* k < n, and backup.k does not exist for k >= n.
C5_BackupDepth ==
  (clean /\ pc = "idle") =>
    /\ Len(hist) = 0 => \A f \in FileNames : ~Exists(disk, f)
    /\ Len(hist) > 0 =>
         /\ disk[MainFile] = hist[Len(hist)]
         /\ \A k \in 1..BACKUP_COUNT :
              IF k < Len(hist)
              THEN disk[BackupFile(k)] = hist[Len(hist) - k]
              ELSE ~Exists(disk, BackupFile(k))

\* Five successful saves of pairwise distinct snapshots: the primary and
\* the backups hold the last four, the first is gone.
C5_Witness ==
  /\ clean
  /\ pc = "idle"
  /\ saves = 5
  /\ Len(hist) = BACKUP_COUNT + 1
  /\ Distinct(hist)
  /\ JsonFile(serialize(createEmptySchema)) \notin {hist[i] : i \in 1..4}
  /\ disk[BackupFile(3)] = hist[1]
  /\ disk[MainFile] = hist[4]

\* C6: after any sequence of successful and failed saves of pairwise
\* distinct snapshots, backup.1 (when it exists) holds what the primary
\* held immediately before the current primary snapshot was written.
C6_Backup1IsPrior ==
  (pc = "idle" /\ ~g.crashed /\ g.distinct /\ Exists(disk, BackupFile(1)))
    => disk[BackupFile(1)] = g.prior

\* C13: after a successful save() the primary file exists and holds the
\* serialization of the in-memory schema, and the staging file does not
\* exist, also when a staging file was left over by an earlier failed
\* save and when the directory did not exist before.
C13_PrimaryWrittenStagingGone ==
  SaveSucceeded =>
    /\ dirExists
    /\ disk[MainFile] = JsonFile(serialize(data))
    /\ ~Exists(disk, TempFile)

\* A successful save() that started with a truncated staging file.
C13_Witness ==
  /\ SaveSucceeded
  /\ g.pre[TempFile] = Truncated
  /\ disk[MainFile] = g.target
  /\ ~Exists(disk, TempFile)

\* C14: save() leaves the dirty flag as it found it until the rename has
\* succeeded: it is clear after a successful save(), and as before the
\* call inside save() and after a save() that failed at any step.
C14_DirtyClearedAfterRename ==
  /\ SaveSucceeded => ~dirty
  /\ (g.op \in SaveOps /\ g.outcome # "ok") => dirty = g.preDirty

\* A save() of a dirty store that failed at the rename: still dirty.
C14_Witness ==
  /\ SaveFailed
  /\ g.failedAt = "rename"
  /\ g.preDirty
  /\ dirty

\* ------------------------------------------------------------------------
\* Record-level operations between saves and reloads (SpecRecords)
\* ------------------------------------------------------------------------
MaxRecordSaves == 1   \* save() calls explored together with record operations

RecordProjectIds == {"p1", "p2", "constructor"}
RecordSessionIds == {"s1", "constructor"}
ReadSessionIds == {"s1"}
ReadProjectIds == {"p1", "constructor"}
RecordSessions == {Session("s1", p, 1000) : p \in RecordProjectIds}
RecordCaptures == {Capture(id, "s1", txt, 1500) :
                     id \in CaptureIds, txt \in CaptureInputs}

NextRecords ==
  \/ \E s \in RecordSessions : SaveSession(s)
  \/ \E id \in ReadSessionIds : GetSession(id)
  \/ \E p \in ReadProjectIds : GetSessionsByProject(p)
  \/ \E c \in RecordCaptures : SaveCapture(c)
  \/ \E id \in CaptureIds : GetCapture(id)
  \/ \E id \in RecordSessionIds, r \in Ratings, t \in FeedbackTimes :
        SaveFeedback(id, r, t)
  \/ saves < MaxRecordSaves /\ BeginSave("immediateSave")
  \/ SaveSteps
  \/ Load

\* A new store on the data directory an earlier run left behind: its
\* primary file holds one session.
EarlierRun == saveSessionData(createEmptySchema, Session("s1", "p1", 1000))

InitRecords ==
  /\ FreshStore
  /\ NewVoiceInputProcessor
  /\ dirExists = TRUE
  /\ disk = [EmptyDisk EXCEPT ![MainFile] = JsonFile(serialize(EarlierRun))]
  /\ g = NoHistory
  /\ hist = <<>>
  /\ clean = FALSE
  /\ faults = 0
  /\ saves = 0

SpecRecords == InitRecords /\ [][NextRecords]_vars

StoreFiles == {MainFile} \cup BackupFiles

\* C11: after load() the in-memory schema is the snapshot of one single
\* file (the primary or a backup) or the empty schema; no session, index
\* entry or capture that was in memory before and is missing from that
\* snapshot can still be retrieved.
C11_LoadReplacesSchema ==
  g.op = "load" =>
    /\ \/ data = createEmptySchema
       \/ \E f \in StoreFiles :
            deserialize(disk[f]).ok /\ data = deserialize(disk[f]).value
    /\ \A id \in DOMAIN g.before.sessions :
         id \notin DOMAIN loadResult(disk).value.sessions
           => getSession(data, id) = Absent
    /\ \A p \in DOMAIN g.before.sessionsByProject :
         p \notin DOMAIN loadResult(disk).value.sessionsByProject
           => getSessionsByProject(data, p) = <<>>
    /\ \A id \in DOMAIN g.before.captures :
         id \notin DOMAIN loadResult(disk).value.captures
           => getCapture(data, id) = Absent

\* A load() over a store holding a session with feedback and a capture,
\* from a primary file saved before the feedback and the capture.
C11_Witness ==
  /\ g.op = "load"
  /\ "c1" \in DOMAIN g.before.captures
  /\ "s1" \in DOMAIN g.before.sessions
  /\ g.before.sessions["s1"].feedbackRating # Absent
  /\ deserialize(disk[MainFile]).ok
  /\ data = deserialize(disk[MainFile]).value
  /\ "s1" \in DOMAIN data.sessions
  /\ data.sessions["s1"].feedbackRating = Absent
  /\ getCapture(data, "c1") = Absent

\* C12: after a successful save() of a schema built by saveSession,
\* saveCapture and saveFeedback, load() in a fresh store on the same
\* directory yields a schema equal to the saved one in every field: the
\* sessions with their times and absent optional fields, the by-project
\* index, the captures and the version.
C12_SaveLoadRoundTrip ==
  SaveSucceeded =>
    /\ loadResult(disk).kind = "schema"
    /\ replacedData(createEmptySchema, loadResult(disk).value) = data

\* A successful save() of a session with feedback at a sub-second time
\* and no exit time, its index entry and a capture.
C12_Witness ==
  /\ SaveSucceeded
  /\ "s1" \in DOMAIN data.sessions
  /\ data.sessions["s1"].feedbackTime = Some(2500)
  /\ data.sessions["s1"].exitTime = Absent
  /\ "p1" \in DOMAIN data.sessionsByProject
  /\ "c1" \in DOMAIN data.captures
  /\ loadResult(disk).value.captures["c1"].timestamp = 1500

\* C16: no session id occurs twice in the index entry of a project, so
\* getSessionsByProject returns no session twice, however often and with
\* whatever fields a session id is saved.
C16_IndexHasNoDuplicates ==
  \A p \in DOMAIN data.sessionsByProject :
    /\ Distinct(data.sessionsByProject[p])
    /\ Distinct(getSessionsByProject(data, p))

\* saveSession of a session for the project whose index entry lists it
\* already, after it was saved for another project as well.
C16_Witness ==
  /\ g.op = "saveSession"
  /\ g.outcome = "ok"
  /\ g.result = <<"s1", TRUE, Session("s1", "p1", 1000)>>
  /\ data.sessions["s1"].projectId = "p1"
  /\ data.sessionsByProject["p1"] = <<"s1">>
  /\ "p2" \in DOMAIN data.sessionsByProject

\* C17: every id in the index entry of project p names a stored session
\* whose projectId is p, so getSessionsByProject(p) returns sessions of p
\* only.
C17_IndexMatchesSessions ==
  \A p \in DOMAIN data.sessionsByProject :
    /\ \A i \in 1..Len(data.sessionsByProject[p]) :
         /\ data.sessionsByProject[p][i] \in DOMAIN data.sessions
         /\ data.sessions[data.sessionsByProject[p][i]].projectId = p
    /\ \A i \in 1..Len(getSessionsByProject(data, p)) :
         getSessionsByProject(data, p)[i].projectId = p

\* C18: saveFeedback on a session id that is not in the store changes
\* neither the schema nor the dirty flag nor the disk and raises nothing;
\* on a stored session it sets the rating and the feedback time of that
\* session, nothing else in the schema, and sets the dirty flag.
C18_SaveFeedbackFrame ==
  [][g'.op = "saveFeedback" =>
       /\ g'.outcome = "ok"
       /\ disk' = disk
       /\ IF g'.result[1] \notin DOMAIN data.sessions
          THEN data' = data /\ dirty' = dirty
          ELSE /\ dirty'
               /\ \E r \in Ratings, t \in FeedbackTimes :
                    data' = [data EXCEPT
                      !.sessions[g'.result[1]].feedbackRating = Some(r),
                      !.sessions[g'.result[1]].feedbackTime = Some(t)]]_vars

\* C19: right after saveSession(s), getSession(s.id) returns s, and right
\* after saveCapture(c), getCapture(c.id) returns c, whatever was saved
\* to disk; what a getter returns for an id changes only when that id is
\* saved again (saveFeedback writes into the stored session) or when
\* load() replaces the schema.
C19_ReadYourWrites ==
  [][/\ g'.op = "saveSession" =>
          getSession(data', g'.result[1]) = Some(g'.result[3])
     /\ g'.op = "saveCapture" =>
          getCapture(data', g'.result[1]) = Some(g'.result[2])
     /\ \A id \in RecordSessionIds :
          getSession(data', id) # getSession(data, id) =>
            \/ g'.op = "load"
            \/ g'.op \in {"saveSession", "saveFeedback"} /\ g'.result[1] = id
     /\ \A id \in CaptureIds :
          getCapture(data', id) # getCapture(data, id) =>
            \/ g'.op = "load"
            \/ g'.op = "saveCapture" /\ g'.result[1] = id]_vars

\* getSession returning a session saved for a second project, while the
\* primary file still holds the session as saved for the first.
C19_Witness ==
  /\ g.op = "getSession"
  /\ g.result = Some(Session("s1", "p2", 1000))
  /\ dirty
  /\ deserialize(disk[MainFile]).ok
  /\ getSession(deserialize(disk[MainFile]).value, "s1")
       = Some(Session("s1", "p1", 1000))

RecordOps == {"saveSession", "getSession", "getSessionsByProject",
              "saveCapture", "getCapture", "saveFeedback"}

\* C20: the record-level operations change no file of the data
\* directory; the primary file changes only in the rename of a save()
\* that succeeds, and then holds the serialization of the in-memory
\* schema as of that save().
C20_RecordOpsNeverFlush ==
  [][/\ g'.op \in RecordOps => (disk' = disk /\ dirExists' = dirExists)
     /\ disk'[MainFile] # disk[MainFile] =>
          /\ pc = "rename"
          /\ g'.op \in SaveOps /\ g'.outcome = "ok"
          /\ disk'[MainFile] = JsonFile(serialize(data))]_vars

\* A capture saved after the last successful save(): the store is dirty
\* and the primary file still holds the schema without the capture.
C20_Witness ==
  /\ g.op = "saveCapture"
  /\ dirty
  /\ Exists(disk, MainFile)
  /\ disk[MainFile] # JsonFile(serialize(data))
  /\ "c1" \in DOMAIN data.captures
  /\ getCapture(deserialize(disk[MainFile]).value, "c1") = Absent

\* A step that makes the in-memory schema and a snapshot agree: the rename
\* of a successful save(), or a load().
Synchronises ==
  \/ pc = "rename" /\ pc' = "idle"
       /\ disk'[MainFile] = JsonFile(serialize(data'))
  \/ g'.op = "load"

\* C15: a clear dirty flag never hides an unpersisted change: whenever the
\* flag is clear after a step, either the step synchronised the schema
\* with a snapshot (successful save, load), or the flag was clear before
\* and the step did not change the schema.
C15_CleanMeansPersisted ==
  [][~dirty' => (Synchronises \/ (~dirty /\ data' = data))]_vars

\* ------------------------------------------------------------------------
\* Failure listeners and the autosave timer (SpecNotify)
\* ------------------------------------------------------------------------
NotifyInputs == {Session("s1", "p1", 1000)}

NextNotify ==
  \/ \E s \in NotifyInputs : SaveSession(s)
  \/ \E l \in ListenerIds : OnFailure(l)
  \/ StartAutoSave
  \/ StopAutoSave
  \/ AutoSaveTick
  \/ \E c \in Callers : BeginSave(c)
  \/ SaveSteps
  \/ SaveFailures

SpecNotify == Init /\ [][NextNotify]_vars

Count(seq, P(_)) == Cardinality({i \in 1..Len(seq) : P(seq[i])})

C21_TickSavesIffDirty ==
  [][/\ g'.op = "autoSaveTick" =>
          /\ ~dirty
          /\ pc' = "idle"
          /\ g'.events = <<>>
          /\ UNCHANGED <<memVars, diskVars, rot, saves>>
     /\ (g'.op = "autosave" /\ saves' = saves + 1) =>
          /\ dirty
          /\ pc' = "mkdir"
          /\ activeTimers # {}]_vars

\* A tick that found the flag clear, after an earlier save wrote the
\* primary file, with a listener registered.
C21_Witness ==
  /\ g.op = "autoSaveTick"
  /\ ~dirty
  /\ autoSaveTimer # 0
  /\ Exists(disk, MainFile)
  /\ Len(failureListeners) > 0

\* C22: whatever startAutoSave() and stopAutoSave() calls were made, the
\* store has at most one interval timer alive, and it is the one whose
\* handle the store holds.
C22_AtMostOneTimer ==
  /\ Cardinality(activeTimers) <= 1
  /\ activeTimers = IF autoSaveTimer = 0 THEN {} ELSE {autoSaveTimer}

\* startAutoSave() was called while a timer was running.
C22_Witness ==
  /\ g.op = "startAutoSave"
  /\ g.result = <<TRUE>>
  /\ Cardinality(activeTimers) = 1

\* C23: stopAutoSave() leaves no timer alive and changes nothing else
\* (nothing at all when no timer was running); while the store holds no
\* timer no autosave tick runs, so no save is entered by the timer even if
\* the dirty flag is set; stopAutoSave() never runs inside a save().
C23_StopCancelsTimer ==
  [][/\ g'.op = "stopAutoSave" =>
          /\ pc = "idle" /\ pc' = "idle"
          /\ autoSaveTimer' = 0
          /\ activeTimers' = {}
          /\ g'.result = <<FALSE>> => UNCHANGED <<autoSaveTimer, activeTimers>>
          /\ UNCHANGED <<data, dirty, failureListeners, diskVars, rot, saves>>
     /\ g'.op \in {"autosave", "autoSaveTick"} /\ g' # g /\ pc = "idle" =>
          autoSaveTimer # 0]_vars

\* stopAutoSave() cancelled a running timer while changes were unsaved.
C23_Witness ==
  /\ g.op = "stopAutoSave"
  /\ g.result = <<TRUE>>
  /\ dirty
  /\ autoSaveTimer = 0
  /\ activeTimers = {}

\* C26: a save() is entered only when no save() is running, whoever calls
\* it (save, immediateSave or the timer); while one is running every step
\* belongs to it, and the backup rotation is followed only by more of the
\* same rotation, the rename or the failure of that save().
C26_SavesNeverInterleave ==
  [][/\ saves' # saves => pc = "idle" /\ pc' = "mkdir"
     /\ pc # "idle" =>
          /\ g'.caller = g.caller
          /\ g'.target = g.target
          /\ saves' = saves
     /\ pc \in {"rotate", "copyMain"} =>
          pc' \in {"rotate", "copyMain", "rename", "notify"}]_vars

\* An explicit save() is rotating the backups while the timer is running
\* and changes are unsaved.
C26_Witness ==
  /\ pc = "rotate"
  /\ g.caller = "save"
  /\ autoSaveTimer # 0
  /\ dirty

\* ------------------------------------------------------------------------
\* The autosave timer next to explicit saves (SpecRetry)
\* ------------------------------------------------------------------------
NextRetry ==
  \/ \E s \in NotifyInputs : SaveSession(s)
  \/ StartAutoSave
  \/ StopAutoSave
  \/ AutoSaveTick
  \/ \E c \in Callers : BeginSave(c)
  \/ SaveSteps
  \/ SaveFailures

\* setInterval keeps calling the callback while the interval is alive, and
\* a save() that was entered runs to its return or its throw.
SpecRetry ==
  /\ Init
  /\ [][NextRetry]_vars
  /\ WF_vars(AutoSaveTick)
  /\ WF_vars(SaveSteps \/ SaveFailures)

\* The caller stops the timer or enters save() itself.
CallerActs ==
  \/ g.op = "stopAutoSave"
  \/ g.op \in Callers /\ pc = "mkdir"

\* C24: a save() that fails while changes are unsaved leaves the dirty flag
\* set; if the timer is running when it fails, a later tick enters save()
\* anew unless the caller stops the timer or saves first; and when a save
\* entered by the timer succeeds, the primary file holds the in-memory
\* schema and the dirty flag is clear.
C24_RetryOnNextTick ==
  /\ [](SaveFailed /\ g.preDirty => dirty)
  /\ (pc = "notify" /\ g.preDirty /\ autoSaveTimer # 0 /\ CanSave)
       ~> (\/ g.op = "autosave" /\ pc = "mkdir"
           \/ CallerActs)
  /\ [](SaveSucceeded /\ g.caller = "autosave" =>
          /\ disk[MainFile] = JsonFile(serialize(data))
          /\ ~dirty)

\* A save entered by the timer succeeded after an earlier save had failed.
C24_Witness ==
  /\ SaveSucceeded
  /\ g.caller = "autosave"
  /\ ~clean
  /\ faults > 0
  /\ ~dirty
  /\ disk[MainFile] = JsonFile(serialize(data))

\* ------------------------------------------------------------------------
\* The in-memory schema across failing saves (SpecUsable)
\* ------------------------------------------------------------------------
UsableSessions == {Session("s1", "p1", 1000), Session("s1", "p1", 2000)}

NextUsable ==
  \/ \E s \in UsableSessions : SaveSession(s)
  \/ \E c \in RecordCaptures : SaveCapture(c)
  \/ \E id \in SessionIds, r \in Ratings, t \in FeedbackTimes :
       SaveFeedback(id, r, t)
  \/ saves < MaxRecordSaves /\ BeginSave("save")
  \/ SaveSteps
  \/ SaveFailures

\* A new store on a directory that does not exist yet, or on the one an
\* earlier run left after saving the empty schema and then one session.
UsableDirs ==
  {[dirExists |-> FALSE, disk |-> EmptyDisk],
   [dirExists |-> TRUE,
    disk |-> [EmptyDisk EXCEPT
                ![MainFile] = JsonFile(serialize(EarlierRun)),
                ![BackupFile(1)] = JsonFile(serialize(createEmptySchema))]]}

InitUsable ==
  /\ FreshStore
  /\ NewVoiceInputProcessor
  /\ \E d \in UsableDirs : dirExists = d.dirExists /\ disk = d.disk
  /\ g = NoHistory
  /\ hist = <<>>
  /\ clean = FALSE
  /\ faults = 0
  /\ saves = 0

SpecUsable == InitUsable /\ [][NextUsable]_vars

\* C25: no step of a save(), failing steps and the catch clause included,
\* changes the in-memory schema, so getSession, getSessionsByProject and
\* getCapture answer after a failed save() what they answered before it;
\* the failed save() ends with the store idle, and a saveSession,
\* saveCapture or saveFeedback made after a failure takes effect as usual.
C25_FailedSaveKeepsMemory ==
  [][/\ pc # "idle" =>
          /\ data' = data
          /\ \A id \in SessionIds : getSession(data', id) = getSession(data, id)
          /\ \A p \in ProjectIds :
               getSessionsByProject(data', p) = getSessionsByProject(data, p)
          /\ \A id \in CaptureIds : getCapture(data', id) = getCapture(data, id)
     /\ pc = "notify" => pc' = "idle" /\ dirty' = dirty
     /\ faults > 0 /\ g'.op = "saveSession" =>
          /\ g'.outcome = "ok"
          /\ getSession(data', g'.result[1]) = Some(g'.result[3])
          /\ dirty'
     /\ faults > 0 /\ g'.op = "saveCapture" =>
          /\ getCapture(data', g'.result[1]) = Some(g'.result[2])
          /\ dirty'
     /\ faults > 0 /\ g'.op = "saveFeedback" /\ g'.result[1] \in DOMAIN data.sessions =>
          /\ data'.sessions[g'.result[1]].feedbackRating # Absent
          /\ dirty']_vars

\* A save() failed while a session and a capture were in memory, and a
\* session was saved afterwards.
C25_Witness ==
  /\ faults > 0
  /\ g.op = "saveSession"
  /\ getSession(data, "s1") = Some(Session("s1", "p1", 2000))
  /\ getCapture(data, "c1") # Absent
  /\ disk[MainFile] = JsonFile(serialize(EarlierRun))
  /\ dirty

\* ------------------------------------------------------------------------
\* Loading from an arbitrary directory (SpecDisk)
\* ------------------------------------------------------------------------
\* A JSON document without a version field, such as '{}'.
NoVersionFile ==
  JsonFile([version |-> Absent, sessions |-> EmptyMap,
            sessionsByProject |-> EmptyMap, captures |-> EmptyMap])

\* Snapshots an earlier run of the store may have written.
StoredFiles ==
  {JsonFile(serialize(saveSessionData(createEmptySchema, s))) :
     s \in SessionInputs}

DiskInputs == {NoFile, Garbage, Truncated, NoVersionFile} \cup StoredFiles
TempInputs == {NoFile, Truncated}

\* A new store on a directory in any state: files valid, corrupt or
\* missing, possibly a leftover staging file.
InitDisk ==
  /\ FreshStore
  /\ NewVoiceInputProcessor
  /\ disk \in [FileNames -> DiskInputs]
  /\ disk[TempFile] \in TempInputs
  /\ dirExists \in BOOLEAN
  /\ (\E f \in FileNames : Exists(disk, f)) => dirExists
  /\ g = NoHistory
  /\ hist = <<>>
  /\ clean = FALSE
  /\ faults = 0
  /\ saves = 0

NextDisk ==
  \/ \E s \in SessionInputs : SaveSession(s)
  \/ Load
  \/ Reset

SpecDisk == InitDisk /\ [][NextDisk]_vars

Valid(f) == Exists(disk, f) /\ deserialize(disk[f]).ok
Parsed(f) == deserialize(disk[f]).value

\* C7: when load() has run on a directory whose primary file exists and
\* does not deserialize, the schema in memory is the content of the first
\* of backup.1, backup.2, backup.3 that deserializes.
C7_FirstValidBackup ==
  (g.op = "load" /\ Exists(disk, MainFile) /\ ~Valid(MainFile)) =>
    \A k \in 1..BACKUP_COUNT :
      (Valid(BackupFile(k)) /\ \A j \in 1..(k - 1) : ~Valid(BackupFile(j)))
        => data = Parsed(BackupFile(k))

\* A corrupt primary, a valid backup.1 and a valid, different backup.2:
\* backup.1 is installed, replacing other in-memory content.
C7_Witness ==
  /\ g.op = "load"
  /\ disk[MainFile] = Garbage
  /\ Valid(BackupFile(1))
  /\ Valid(BackupFile(2))
  /\ Parsed(BackupFile(1)) # Parsed(BackupFile(2))
  /\ data = Parsed(BackupFile(1))
  /\ g.before # data

\* C8: load() never raises; when the primary and the three backups are
\* each missing or corrupt, it leaves the empty schema (version 1) in
\* memory.
C8_LoadNeverRaises ==
  g.op = "load" =>
    /\ g.outcome = "ok"
    /\ (\A f \in {MainFile} \cup BackupFiles : ~Valid(f)) =>
         data = [sessions |-> EmptyMap, sessionsByProject |-> EmptyMap,
                 captures |-> EmptyMap, version |-> 1]

\* The primary and the three backups all exist and are all corrupt, and
\* load() replaced a non-empty schema by the empty one.
C8_Witness ==
  /\ g.op = "load"
  /\ g.outcome = "ok"
  /\ \A f \in {MainFile} \cup BackupFiles : Exists(disk, f) /\ ~Valid(f)
  /\ g.before # createEmptySchema
  /\ data = createEmptySchema

\* C9: when load() has run on a directory without a primary file, the
\* schema in memory is the empty schema, whatever the backups hold.
C9_MissingPrimaryLoadsEmpty ==
  (g.op = "load" /\ ~Exists(disk, MainFile)) => data = createEmptySchema

\* C10: load() creates, modifies, renames and deletes no file.
C10_LoadIsPureRead ==
  [][g'.op = "load" => (disk' = disk /\ dirExists' = dirExists)]_vars

\* load() has run on a directory with a corrupt primary, a valid backup
\* and a leftover staging file.
C10_Witness ==
  /\ g.op = "load"
  /\ disk[MainFile] = Truncated
  /\ disk[TempFile] = Truncated
  /\ Valid(BackupFile(2))
  /\ ~Exists(disk, BackupFile(1))

\* ------------------------------------------------------------------------
\* Documents deserialize is given (SpecVersions)
\* ------------------------------------------------------------------------
VersionDoc(v) ==
  [serialize(saveSessionData(createEmptySchema, Session("s1", "p1", 1000)))
     EXCEPT !.version = v]

\* '{"version": "1", ...}' and a document of a version this build does
\* not know.
StringVersionFile == JsonFile(VersionDoc(Some(JsonString(CURRENT_SCHEMA_VERSION))))
UnknownVersionFile == JsonFile(VersionDoc(Some(JsonNumber(CURRENT_SCHEMA_VERSION + 1))))
KnownVersionFile == JsonFile(VersionDoc(Some(JsonNumber(CURRENT_SCHEMA_VERSION))))

VersionInputs ==
  {Garbage, Truncated, NonObject, NoVersionFile, StringVersionFile,
   UnknownVersionFile, KnownVersionFile}

VersionBackups ==
  {NoFile,
   JsonFile(serialize(saveSessionData(createEmptySchema,
                                      Session("s1", "p1", 2000))))}

\* A new store on a directory whose primary file is any of the documents
\* above, with or without a first backup.
InitVersions ==
  /\ FreshStore
  /\ NewVoiceInputProcessor
  /\ dirExists = TRUE
  /\ \E m \in VersionInputs, b \in VersionBackups :
       disk = [EmptyDisk EXCEPT ![MainFile] = m, ![BackupFile(1)] = b]
  /\ g = NoHistory
  /\ hist = <<>>
  /\ clean = FALSE
  /\ faults = 0
  /\ saves = 0

NextVersions ==
  \/ \E s \in SessionInputs : SaveSession(s)
  \/ Load
  \/ Reset

SpecVersions == InitVersions /\ [][NextVersions]_vars

\* A document of the schema version this build knows.
Accepted(raw) ==
  /\ raw.kind = "json"
  /\ raw.doc.version # Absent
  /\ typeof(raw.doc.version[1]) = "number"
  /\ raw.doc.version[1].value = CURRENT_SCHEMA_VERSION

\* C27: when load() has run, deserialize took a file exactly when it is
\* JSON with an object root whose version is the number of the known
\* schema version; load() did not raise, and the schema it left in memory
\* is the empty one or comes from a file that is such a document.
C27_OnlyKnownVersionAccepted ==
  g.op = "load" =>
    /\ g.outcome = "ok"
    /\ \A f \in StoreFiles :
         Exists(disk, f) => (deserialize(disk[f]).ok <=> Accepted(disk[f]))
    /\ \/ data = createEmptySchema
       \/ \E f \in StoreFiles :
            Accepted(disk[f]) /\ data = deserialize(disk[f]).value

\* ------------------------------------------------------------------------
\* Session manager and capture module (SpecCritical)
\* ------------------------------------------------------------------------
\* Each call is awaited by its caller before the next one is made, and the
\* store methods awaited inside a call settle without leaving the
\* microtask queue, so a call is one step up to its immediateSave().
MaxCriticalSaves == 2   \* calls followed that end in immediateSave()
ClockTimes == {1000, 2000}
ExitTimes == {500, 1500, NaN}
CloseSessionIds == {"s1", "nonexistent"}

\* new Date() on a clock that does not go back: no reading is earlier than
\* a reading the schema still holds.
CanRead(d, t) ==
  /\ \A id \in DOMAIN d.sessions : d.sessions[id].entryTime <= t
  /\ \A id \in DOMAIN d.captures : d.captures[id].timestamp <= t

\* SessionManager.createSession: id is the fresh randomUUID().
CreateSession(projectId, id, now) ==
  /\ pc = "idle"
  /\ id \notin DOMAIN data.sessions
  /\ CanRead(data, now)
  /\ IF saveSessionThrows(data, Session(id, projectId, now))
     THEN /\ data' = storeSession(data, Session(id, projectId, now))
          /\ dirty' = dirty
          /\ g' = [Did("createSession") EXCEPT
                    !.outcome = "threw", !.result = <<id, now>>]
     ELSE /\ data' = saveSessionData(data, Session(id, projectId, now))
          /\ dirty' = TRUE
          /\ g' = [Did("createSession") EXCEPT !.result = <<id, now>>]
  /\ UNCHANGED <<voiceVars, autoSaveTimer, activeTimers, failureListeners, dirExists,
                 disk, pc, rot, hist, clean, faults, saves>>

\* The two early returns of closeSession.
closeSessionReturnsEarly(d, sessionId, exitTime) ==
  \/ getSession(d, sessionId) = Absent
  \/ DateLess(exitTime, getSession(d, sessionId)[1].entryTime)

closed(d, sessionId, exitTime) ==
  [getSession(d, sessionId)[1] EXCEPT !.exitTime = Some(exitTime)]

\* A closeSession that leaves the write to the autosave timer.
CloseSessionLazy(sessionId, exitTime) ==
  /\ pc = "idle"
  /\ IF closeSessionReturnsEarly(data, sessionId, exitTime)
     THEN /\ g' = [Did("closeSession") EXCEPT !.result = <<sessionId, exitTime>>]
          /\ UNCHANGED <<data, dirty>>
     ELSE /\ data' = saveSessionData(data, closed(data, sessionId, exitTime))
          /\ dirty' = TRUE
          /\ g' = [Did("closeSession") EXCEPT
                    !.caller = "closeSession",
                    !.result = <<sessionId, exitTime>>]
  /\ UNCHANGED <<voiceVars, autoSaveTimer, activeTimers, failureListeners, dirExists,
                 disk, pc, rot, hist, clean, faults, saves>>
\* SessionManager.closeSession: the session object of the store gets the
\* exit time, is saved, and immediateSave() is entered.
CloseSession(sessionId, exitTime) ==
  /\ pc = "idle"
  /\ IF closeSessionReturnsEarly(data, sessionId, exitTime)
     THEN /\ g' = [Did("closeSession") EXCEPT !.result = <<sessionId, exitTime>>]
          /\ UNCHANGED <<data, dirty, pc, saves>>
     ELSE /\ saves < MaxCriticalSaves
          /\ data' = saveSessionData(data, closed(data, sessionId, exitTime))
          /\ dirty' = TRUE
          /\ pc' = "mkdir"
          /\ saves' = saves + 1
          /\ g' = [StartedOn("closeSession", data', TRUE) EXCEPT
                    !.result = <<sessionId, exitTime>>]
  /\ UNCHANGED <<voiceVars, autoSaveTimer, activeTimers, failureListeners, dirExists,
                 disk, rot, hist, clean, faults>>

\* The schema after processCapture has saved the capture and, when the
\* session exists, the session with its captureId and exitTime.
captured(d, c) ==
  IF getSession(saveCaptureData(d, c), c.sessionId) = Absent
  THEN saveCaptureData(d, c)
  ELSE saveSessionData(
         saveCaptureData(d, c),
         [getSession(saveCaptureData(d, c), c.sessionId)[1] EXCEPT
            !.captureId = Some(c.id), !.exitTime = Some(c.timestamp)])

\* CaptureModule.processCapture, entered as op: id is the fresh
\* randomUUID(), now the reading of new Date().
processCapture(op, sessionId, id, text, now) ==
  /\ pc = "idle"
  /\ id \notin DOMAIN data.captures
  /\ CanRead(data, now)
  /\ saves < MaxCriticalSaves
  /\ data' = captured(data, Capture(id, sessionId, text, now))
  /\ dirty' = TRUE
  /\ pc' = "mkdir"
  /\ saves' = saves + 1
  /\ g' = [StartedOn(op, data', TRUE) EXCEPT !.result = <<id, sessionId, now>>]
  /\ UNCHANGED <<voiceVars, autoSaveTimer, activeTimers, failureListeners, dirExists,
                 disk, rot, hist, clean, faults>>

SubmitTextCapture(sessionId, id, text, now) ==
  /\ pc = "idle"
  /\ processCapture("submitTextCapture", sessionId, id, text, now)

\* submitVoiceCapture: a failed transcription returns success: false
\* without a call of the store.
SubmitVoiceCapture(sessionId, id, text, now, transcribed) ==
  IF transcribed
  THEN processCapture("submitVoiceCapture", sessionId, id, text, now)
  ELSE /\ pc = "idle"
       /\ CanRead(data, now)
       /\ g' = [Did("submitVoiceCapture") EXCEPT !.result = <<now>>]
       /\ UNCHANGED <<voiceVars, memVars, diskVars, pc, rot, hist, clean, faults, saves>>

NextCritical ==
  \/ \E p \in ProjectIds, id \in SessionIds, now \in ClockTimes :
       CreateSession(p, id, now)
  \/ \E id \in CloseSessionIds, t \in ExitTimes : CloseSession(id, t)
  \/ \E sid \in CloseSessionIds, id \in CaptureIds, txt \in CaptureInputs,
        now \in ClockTimes :
       SubmitTextCapture(sid, id, txt, now)
  \/ \E sid \in CloseSessionIds, id \in CaptureIds, txt \in CaptureInputs,
        now \in ClockTimes, transcribed \in BOOLEAN :
       SubmitVoiceCapture(sid, id, txt, now, transcribed)
  \/ SaveSteps
  \/ SaveFailures

SpecCritical == InitUsable /\ [][NextCritical]_vars

CaptureCalls == {"submitTextCapture", "submitVoiceCapture"}

C30_ExitNotBeforeEntry ==
  [][/\ \A id \in DOMAIN data'.sessions :
          data'.sessions[id].exitTime # Absent =>
            DateAtLeast(data'.sessions[id].exitTime[1],
                        data'.sessions[id].entryTime)
     /\ (g'.op = "closeSession" /\ g'.caller = "none") =>
          /\ UNCHANGED <<data, dirty, diskVars, saves>>
          /\ pc' = "idle"]_vars

\* ------------------------------------------------------------------------
\* Captures saved under one id (SpecCaptures)
\* ------------------------------------------------------------------------
CaptureVersions ==
  {Capture("c1", "s1", txt, 1500) : txt \in {"fix login bug", "write tests"}}

NextCaptures ==
  \/ \E c \in CaptureVersions : SaveCapture(c)
  \/ \E id \in CaptureIds : GetCapture(id)
  \/ \E s \in NotifyInputs : SaveSession(s)
  \/ \E id \in SessionIds, r \in Ratings, t \in FeedbackTimes :
       SaveFeedback(id, r, t)
  \/ saves < MaxRecordSaves /\ BeginSave("immediateSave")
  \/ SaveSteps

SpecCaptures == InitRecords /\ [][NextCaptures]_vars

\* C29: once a capture is stored under an id, no operation of the store
\* other than load() and _reset() changes what getCapture(id) returns.
C29_CapturesAreWriteOnce ==
  [][\A id \in CaptureIds :
       (getCapture(data, id) # Absent /\ g'.op \notin {"load", "reset"}) =>
         getCapture(data', id) = getCapture(data, id)]_vars

\* C31: every session of the schema that has a feedback time has a
\* feedback rating, whatever saveSession, saveFeedback, save() and load()
\* calls were made; and a saveFeedback that finds the session leaves it
\* with the rating and the time it was given.
C31_FeedbackTimeHasRating ==
  [][/\ \A id \in DOMAIN data'.sessions :
          data'.sessions[id].feedbackTime # Absent =>
            data'.sessions[id].feedbackRating # Absent
     /\ (g'.op = "saveFeedback" /\ g'.result[1] \in DOMAIN data.sessions) =>
          /\ data'.sessions[g'.result[1]].feedbackRating \in {Some(r) : r \in Ratings}
          /\ data'.sessions[g'.result[1]].feedbackTime \in
               {Some(t) : t \in FeedbackTimes}]_vars

\* load() has read back a file in which a session carries feedback.
C31_Witness ==
  /\ g.op = "load"
  /\ g.outcome = "ok"
  /\ "s1" \in DOMAIN data.sessions
  /\ data.sessions["s1"].feedbackTime = Some(2500)
  /\ data.sessions["s1"].feedbackRating = Some(5)
  /\ disk[MainFile] = JsonFile(serialize(data))

\* C32: a save() that succeeded over an existing primary file leaves
\* backup.1 with the content the primary file had, backup.2 with what
\* backup.1 had and backup.3 with what backup.2 had (an absent source
\* leaving an absent target); a save() that succeeded with no primary file
\* to start from leaves every backup as it was.
C32_RotationShiftsEverySlot ==
  SaveSucceeded =>
    IF Exists(g.pre, MainFile)
    THEN /\ disk[BackupFile(1)] = g.pre[MainFile]
         /\ \A i \in 2..BACKUP_COUNT : disk[BackupFile(i)] = g.pre[BackupFile(i - 1)]
    ELSE \A i \in 1..BACKUP_COUNT : disk[BackupFile(i)] = g.pre[BackupFile(i)]

\* C33: every capture of the schema belongs to a session of the schema,
\* whatever createSession, closeSession and capture submissions were made.
C33_CaptureHasSession ==
  \A id \in DOMAIN data.captures :
    data.captures[id].sessionId \in DOMAIN data.sessions

\* ------------------------------------------------------------------------
\* VoiceInputProcessor: recording, silence detection and transcription.
\* Audio levels are in thousandths (0.01 is 10), times in milliseconds.
\* The recorder delivers levels from recorder.start() until recorder.stop()
\* is called; a timer fires when it is due, before the clock moves on.
\* ------------------------------------------------------------------------
MaxTicks == 6      \* clock ticks explored
MaxTimeouts == 3   \* setTimeout calls explored

SILENCE_THRESHOLD_MS == 2000
SILENCE_LEVEL == 10
TickMs == 1000
AudioLevels == {1, 10, 500}

isRecording == currentSession # Absent /\ currentSession[1].isActive

\* clearSilenceTimer: clearTimeout of the stored handle, if there is one.
clearSilenceTimer(pending) ==
  IF silenceTimer # 0 THEN {t \in pending : t.handle # silenceTimer}
  ELSE pending

\* startRecording, up to the state notification.
startRecording ==
  /\ currentSession' = Some([isActive |-> TRUE])
  /\ silenceStart' = Absent
  /\ recorderOn' = TRUE
  /\ quiet' = Absent

\* startRecording() by the client; requestPermission may reject.
StartRecording(granted) ==
  /\ IF granted
     THEN /\ startRecording
          /\ voiceOp' = "startRecording"
     ELSE /\ voiceOp' = "denied"
          /\ UNCHANGED <<currentSession, silenceStart, recorderOn, quiet>>
  /\ UNCHANGED <<storeVars, silenceTimer, resolveStop, clock, timeouts,
                 handles, stopsPending, rt>>

\* stopRecording up to its await of recorder.stop().
stopRecording(pending) ==
  /\ timeouts' = clearSilenceTimer(pending)
  /\ silenceTimer' = 0
  /\ currentSession' = Some([isActive |-> FALSE])
  /\ recorderOn' = FALSE

\* stopRecording() by the client: throws without an active session, and
\* resolves with the audio otherwise.
StopRecording ==
  /\ IF isRecording
     THEN /\ stopRecording(timeouts)
          /\ voiceOp' = "stopRecording"
     ELSE /\ voiceOp' = "stopRecordingThrew"
          /\ UNCHANGED <<timeouts, silenceTimer, currentSession, recorderOn>>
  /\ UNCHANGED <<storeVars, silenceStart, resolveStop, clock, handles,
                 stopsPending, rt, quiet>>

\* handleAudioLevel(level), called by the recorder.
HandleAudioLevel(level) ==
  /\ recorderOn
  /\ level < SILENCE_LEVEL /\ silenceStart = Absent => handles < MaxTimeouts
  /\ IF level < SILENCE_LEVEL
     THEN /\ IF silenceStart = Absent
             THEN /\ silenceStart' = Some(clock)
                  /\ handles' = handles + 1
                  /\ silenceTimer' = handles + 1
                  /\ timeouts' = timeouts \cup
                       {[handle |-> handles + 1,
                         due |-> clock + SILENCE_THRESHOLD_MS]}
             ELSE UNCHANGED <<silenceStart, handles, silenceTimer, timeouts>>
          /\ quiet' = IF quiet = Absent THEN Some(clock) ELSE quiet
     ELSE /\ silenceStart' = Absent
          /\ timeouts' = clearSilenceTimer(timeouts)
          /\ silenceTimer' = 0
          /\ quiet' = Absent
          /\ UNCHANGED handles
  /\ voiceOp' = "level"
  /\ UNCHANGED <<storeVars, currentSession, resolveStop, clock, recorderOn,
                 stopsPending, rt>>

\* A due silence timer fires and runs onSilenceDetected up to its await of
\* stopRecording().
TimerFires ==
  \E t \in timeouts :
  /\ t.due <= clock
  /\ IF isRecording
     THEN /\ stopRecording(timeouts \ {t})
          /\ stopsPending' = stopsPending + 1
          /\ voiceOp' = "silence"
     ELSE /\ timeouts' = timeouts \ {t}
          /\ voiceOp' = "silenceIgnored"
          /\ UNCHANGED <<silenceTimer, currentSession, recorderOn,
                         stopsPending>>
  /\ UNCHANGED <<storeVars, silenceStart, resolveStop, clock, handles, rt,
                 quiet>>

\* onSilenceDetected after stopRecording() resolved: the audio is handed to
\* the waiting recordAndTranscribe(), if there is one.
SilenceStopped ==
  /\ stopsPending > 0
  /\ stopsPending' = stopsPending - 1
  /\ IF resolveStop
     THEN /\ resolveStop' = FALSE
          /\ rt' = "transcribing"
          /\ voiceOp' = "resolved"
     ELSE /\ voiceOp' = "stopped"
          /\ UNCHANGED <<resolveStop, rt>>
  /\ UNCHANGED <<storeVars, currentSession, silenceStart, silenceTimer,
                 clock, timeouts, handles, recorderOn, quiet>>

\* recordAndTranscribe() up to its wait for the audio.
RecordAndTranscribe ==
  /\ rt \in {"none", "returned"}
  /\ startRecording
  /\ resolveStop' = TRUE
  /\ rt' = "waiting"
  /\ voiceOp' = "recordAndTranscribe"
  /\ UNCHANGED <<storeVars, silenceTimer, clock, timeouts, handles,
                 stopsPending>>

\* recordAndTranscribe() after the audio arrived: transcribe and return.
Transcribe ==
  /\ rt = "transcribing"
  /\ rt' = "returned"
  /\ voiceOp' = "transcribed"
  /\ UNCHANGED <<storeVars, currentSession, silenceStart, silenceTimer,
                 resolveStop, clock, timeouts, handles, recorderOn,
                 stopsPending, quiet>>

\* Time passes while no timer is due.
Tick ==
  /\ clock < MaxTicks * TickMs
  /\ \A t \in timeouts : t.due > clock
  /\ clock' = clock + TickMs
  /\ voiceOp' = "tick"
  /\ UNCHANGED <<storeVars, currentSession, silenceStart, silenceTimer,
                 resolveStop, timeouts, handles, recorderOn, stopsPending,
                 rt, quiet>>

NextVoice ==
  \/ \E granted \in BOOLEAN : StartRecording(granted)
  \/ StopRecording
  \/ \E level \in AudioLevels : HandleAudioLevel(level)
  \/ TimerFires
  \/ SilenceStopped
  \/ RecordAndTranscribe
  \/ Transcribe
  \/ Tick

\* The event loop runs due timers and resolved promises, the transcription
\* service answers, and time passes.
SpecVoice ==
  /\ Init
  /\ [][NextVoice]_vars
  /\ WF_vars(TimerFires)
  /\ WF_vars(SilenceStopped)
  /\ WF_vars(Transcribe)
  /\ WF_vars(Tick)

\* C34: an active recording is stopped by the silence timer exactly when
\* the audio level has been below SILENCE_LEVEL for SILENCE_THRESHOLD_MS
\* without a break: the timer stops it only then, an active recording never
\* outlasts such a silence, and a level at or above SILENCE_LEVEL leaves no
\* silence timer pending.
C34_AutoStopAfterFullSilence ==
  [][/\ (isRecording /\ voiceOp' = "silence") =>
          /\ ~isRecording'
          /\ quiet # Absent
          /\ clock = quiet[1] + SILENCE_THRESHOLD_MS
     /\ (isRecording' /\ quiet' # Absent) =>
          clock' <= quiet'[1] + SILENCE_THRESHOLD_MS
     /\ (voiceOp' = "level" /\ quiet' = Absent) =>
          /\ silenceTimer' = 0
          /\ timeouts' = {}]_vars

\* C35: a recordAndTranscribe() call whose recording has ended returns a
\* transcription result, whether the silence timer or stopRecording() ended
\* the recording.
C35_RecordAndTranscribeReturns ==
  (rt = "waiting" /\ ~isRecording) ~> (rt = "returned")

\* C36: an explicit save() of a store that is not dirty runs the whole
\* protocol: the snapshot is written and renamed to the primary, and the
\* files are shifted one backup down.  Four saves in a row that commit the
\* same snapshot leave the primary and all the backups with that snapshot.
C36_CleanSaveRunsProtocol ==
  /\ (SaveSucceeded /\ g.caller \in Callers /\ ~g.preDirty) =>
       /\ disk[MainFile] = g.target
       /\ Exists(g.pre, MainFile) =>
            /\ disk[BackupFile(1)] = g.pre[MainFile]
            /\ \A i \in 2..BACKUP_COUNT :
                 Exists(g.pre, BackupFile(i - 1)) =>
                   disk[BackupFile(i)] = g.pre[BackupFile(i - 1)]
  /\ (SaveSucceeded /\ Len(hist) = BACKUP_COUNT + 1
        /\ \A k \in 1..Len(hist) : hist[k] = hist[Len(hist)]) =>
       \A f \in StoreFiles : disk[f] = hist[Len(hist)]

\* A primary file of an earlier snapshot, then a session saved and four
\* saves in a row, the last three of a store that was not dirty: every
\* file holds the snapshot with the session.
C36_Witness ==
  /\ SaveSucceeded /\ ~g.preDirty
  /\ Len(hist) = BACKUP_COUNT + 1
  /\ Cardinality(g.seen) > 1
  /\ DOMAIN data.sessions # {}
  /\ \A f \in StoreFiles : disk[f] = JsonFile(serialize(data))

\* ------------------------------------------------------------------------
\* load() on a store in use: sessions are saved, the autosave timer runs,
\* listeners are registered and the directory of an earlier run is loaded.
\* ------------------------------------------------------------------------
ReloadInputs == {Session("s1", "p1", 2000)}

NextReload ==
  \/ \E s \in ReloadInputs : SaveSession(s)
  \/ Load
  \/ StartAutoSave
  \/ \E l \in ListenerIds : OnFailure(l)
  \/ saves < MaxRecordSaves /\ AutoSaveTick
  \/ SaveSteps

SpecReload == InitUsable /\ [][NextReload]_vars

\* C37: load() changes nothing but the in-memory schema: the dirty flag,
\* the autosave timer, the failure listeners and the files stay as they
\* were.  A tick that follows a load() of a dirty store starts a save of
\* the loaded schema, and that save puts it in the primary file, rotates
\* the previous primary to backup.1 and clears the flag.
C37_LoadKeepsDirty ==
  [][/\ (pc = "idle" /\ g'.op = "load") =>
          /\ dirty' = dirty
          /\ autoSaveTimer' = autoSaveTimer
          /\ activeTimers' = activeTimers
          /\ failureListeners' = failureListeners
          /\ disk' = disk /\ dirExists' = dirExists
     /\ (g.op = "load" /\ dirty /\ g'.op = "autosave") =>
          /\ pc' = "mkdir"
          /\ data' = data
          /\ g'.target = JsonFile(serialize(data))
     /\ (pc = "rename" /\ pc' = "idle" /\ g.caller = "autosave") =>
          /\ disk'[MainFile] = JsonFile(serialize(data))
          /\ Exists(g.pre, MainFile) => disk'[BackupFile(1)] = g.pre[MainFile]
          /\ ~dirty']_vars

\* A session is saved, the directory of the earlier run is loaded over it
\* while the store is dirty, and the tick has written the loaded schema
\* back: the primary and backup.1 both hold it.
C37_Witness ==
  /\ SaveSucceeded /\ g.caller = "autosave"
  /\ data = EarlierRun
  /\ ~dirty
  /\ autoSaveTimer # 0 /\ failureListeners # <<>>
  /\ disk[MainFile] = JsonFile(serialize(EarlierRun))
  /\ disk[BackupFile(1)] = JsonFile(serialize(EarlierRun))

\* C38: every stored session is listed in the index entry of its project,
\* so getSessionsByProject of that project returns it.
C38_IndexComplete ==
  \A id \in DOMAIN data.sessions :
    /\ data.sessions[id].projectId \in DOMAIN data.sessionsByProject
    /\ \E i \in 1..Len(data.sessionsByProject[data.sessions[id].projectId]) :
         data.sessionsByProject[data.sessions[id].projectId][i] = id
    /\ \E i \in 1..Len(getSessionsByProject(data, data.sessions[id].projectId)) :
         getSessionsByProject(data, data.sessions[id].projectId)[i] =
           data.sessions[id]

\* ------------------------------------------------------------------------
\* Capture submission step by step (SpecSubmit): processCapture awaits
\* saveCapture, then getSession and saveSession, then immediateSave; pc is
\* "link" between the first and the second await.  Failure listeners are
\* registered and file operations fail.
\* ------------------------------------------------------------------------
SubmitSessionIds == {"s1"}
SubmitTimes == {2000}
SubmitExitTimes == {1500}

\* The session update of processCapture: none without the session.
linked(d, c) ==
  IF getSession(d, c.sessionId) = Absent THEN d
  ELSE saveSessionData(d, [getSession(d, c.sessionId)[1] EXCEPT
                             !.captureId = Some(c.id),
                             !.exitTime = Some(c.timestamp)])

SubmittedCapture == Capture(g.result[1], g.result[2], g.result[4], g.result[3])

\* A processCapture that updates the session before it saves the capture.
ProcessCaptureLinkingFirst(sessionId, id, text, now) ==
  /\ pc = "idle"
  /\ id \notin DOMAIN data.captures
  /\ CanRead(data, now)
  /\ saves < MaxCriticalSaves
  /\ data' = linked(data, Capture(id, sessionId, text, now))
  /\ dirty' = TRUE
  /\ pc' = "link"
  /\ g' = [Did("submitTextCapture") EXCEPT
             !.outcome = "running", !.caller = "submitTextCapture",
             !.result = <<id, sessionId, now, text>>]
  /\ UNCHANGED <<voiceVars, autoSaveTimer, activeTimers, failureListeners,
                 dirExists, disk, rot, hist, clean, faults, saves>>

\* submitTextCapture up to the return of saveCapture.
ProcessCaptureSave(sessionId, id, text, now) ==
  /\ pc = "idle"
  /\ id \notin DOMAIN data.captures
  /\ CanRead(data, now)
  /\ saves < MaxCriticalSaves
  /\ data' = saveCaptureData(data, Capture(id, sessionId, text, now))
  /\ dirty' = TRUE
  /\ pc' = "link"
  /\ g' = [Did("submitTextCapture") EXCEPT
             !.outcome = "running", !.caller = "submitTextCapture",
             !.result = <<id, sessionId, now, text>>]
  /\ UNCHANGED <<voiceVars, autoSaveTimer, activeTimers, failureListeners,
                 dirExists, disk, rot, hist, clean, faults, saves>>

\* processCapture from getSession to the call of immediateSave.
ProcessCaptureLink ==
  /\ pc = "link"
  /\ data' = linked(data, SubmittedCapture)
  /\ dirty' = TRUE
  /\ pc' = "mkdir"
  /\ saves' = saves + 1
  /\ g' = [StartedOn(g.op, data', TRUE) EXCEPT !.result = g.result]
  /\ UNCHANGED <<voiceVars, autoSaveTimer, activeTimers, failureListeners,
                 dirExists, disk, rot, hist, clean, faults>>

NextSubmit ==
  \/ \E p \in ProjectIds, id \in SessionIds, now \in ClockTimes :
       CreateSession(p, id, now)
  \/ \E id \in SubmitSessionIds, t \in SubmitExitTimes : CloseSession(id, t)
  \/ \E sid \in SubmitSessionIds, id \in CaptureIds, txt \in CaptureInputs,
        now \in SubmitTimes : ProcessCaptureSave(sid, id, txt, now)
  \/ ProcessCaptureLink
  \/ \E l \in ListenerIds : OnFailure(l)
  \/ SaveSteps
  \/ SaveFailures

SpecSubmit == InitUsable /\ [][NextSubmit]_vars

\* C39: when the immediateSave of a capture submission has failed, the
\* listeners were called before the rejection, the capture and the updated
\* session are in the schema and the store is dirty; captures and capture
\* references are never taken back, and a save that succeeds afterwards
\* leaves the whole schema in the primary file.
C39_FailedSubmissionKeepsCapture ==
  [][/\ (g'.caller \in CaptureCalls /\ g'.outcome = "threw") =>
          /\ g'.events = notifyFailure(failureListeners', g'.failedAt)
                           \o <<[call |-> "throw", error |-> g'.failedAt]>>
          /\ data' = captured(data', SubmittedCapture')
          /\ SubmittedCapture'.id \in DOMAIN data'.captures
          /\ dirty'
     /\ \A id \in DOMAIN data.captures :
          id \in DOMAIN data'.captures /\ data'.captures[id] = data.captures[id]
     /\ \A id \in DOMAIN data.sessions :
          data.sessions[id].captureId # Absent =>
            /\ id \in DOMAIN data'.sessions
            /\ data'.sessions[id].captureId = data.sessions[id].captureId
     /\ (pc = "rename" /\ pc' = "idle") =>
          disk'[MainFile] = JsonFile(serialize(data'))]_vars

\* The submission of a capture for a stored session failed in its save
\* with a listener registered, and the closeSession that followed saved:
\* the primary file holds the capture and the session that refers to it.
C39_Witness ==
  /\ g.op = "closeSession" /\ g.outcome = "ok"
  /\ faults = 1 /\ saves = 2
  /\ failureListeners # <<>>
  /\ "c1" \in DOMAIN data.captures
  /\ "s1" \in DOMAIN data.sessions
  /\ data.sessions["s1"].captureId = Some("c1")
  /\ disk[MainFile] = JsonFile(serialize(data))

\* C40: in the schema in memory, at every step of a capture submission,
\* and in every file of the store that parses, a session with a captureId
\* has its capture in the same schema, and the capture names the session.
Linked(d) ==
  \A id \in DOMAIN d.sessions :
    d.sessions[id].captureId # Absent =>
      /\ d.sessions[id].captureId[1] \in DOMAIN d.captures
      /\ d.captures[d.sessions[id].captureId[1]].sessionId = id

C40_CaptureStoredBeforeReference ==
  /\ Linked(data)
  /\ \A f \in FileNames : Valid(f) => Linked(Parsed(f))

\* Between saveCapture and the session update of a submission: the
\* capture is stored, the session does not refer to it yet.
C40_Witness ==
  /\ pc = "link"
  /\ "s1" \in DOMAIN data.sessions
  /\ "c1" \in DOMAIN data.captures
  /\ data.sessions["s1"].captureId = Absent

====
